---- MODULE Spec2Model ----
(***************************************************************************)
(* Model of wasmy-vm/src/instance.rs: the per-thread instance registry     *)
(* (INSTANCES), instance construction and initialisation, the              *)
(* call_wasm_handler / invoke_instance call path with its out-of-memory    *)
(* retry loop, and the Context byte buffers moved by the three imported    *)
(* functions _vm_recall, _vm_restore and _vm_invoke.                       *)
(*                                                                         *)
(* Spec        : host threads calling load() and with() concurrently,      *)
(*               with re-entrant with() from callbacks and host methods.   *)
(* SpecChannel : one Instance, its Context buffers and guest memory at     *)
(*               byte level.                                               *)
(***************************************************************************)
EXTENDS Integers, Sequences, FiniteSets, TLC

\* ------------------------------------------------------------------ bounds
\* Host threads and module identities (WasmUri) of the model.
Threads == {"t1", "t2"}
\* Module "a" is examples/wasm/onload.rs; module "b" is a module without the
\* onload export.
Uris == {"a", "b"}
\* Number of Instances allocated at one time (InstanceEnv::from).
MaxInstances == 3
\* Maximum of the guest memory, in pages: Memory::grow fails beyond it.
MaxPages == 3
\* Cap on the non-OOM traps one invoke_instance sees (the loop is unbounded).
MaxTraps == 1
\* Depth of re-entrant with() calls on one thread.
MaxDepth == 2
\* load and with calls started in one behaviour (all threads together).
MaxOps == 3
\* call_wasm_handler calls one callback makes.
MaxCalls == 1

\* Longest encoded message (arguments, context, results) of the model.
MaxLen == 2
\* Capacity the two Context buffers start with: Context::with_capacity(1024) in
\* from_module, scaled down so that messages longer than the capacity occur.
InitCapacity == 1
\* Bytes of guest linear memory the guest addresses in the model.
ViewLen == 2
\* Imported-function calls and stores the guest makes in one behaviour.
MaxGuestSteps == 3
\* call_wasm_handler calls made on the Instance of SpecChannel.
MaxChannelCalls == 2

Ids == 1..MaxInstances
\* Pages of a fresh guest memory.
InitPages == 1

\* ------------------------------------------------------- external surface
\* WasmHandlerApi::onload_symbol() and WasmHandlerApi::method_to_symbol().
onload_symbol == "_wasm_onload"
method_to_symbol(method) == IF method = 0 THEN "_wasm_handle_0" ELSE "_wasm_handle_1"
Methods == {0, 1}

\* The exports of each module: onload.rs exports _wasm_onload and
\* _wasm_handle_0; module "b" exports the handler only.
Exports(wasm_uri) ==
    IF wasm_uri = "a" THEN {"_wasm_onload", "_wasm_handle_0"} ELSE {"_wasm_handle_0"}

\* ----------------------------------------------------------------- keys
Keys == [wasm_uri : Uris, thread_id : Threads]

\* A key that names one fixed thread whatever the caller.
LocalInstanceKey_from_mut(wasm_uri, cur) == [wasm_uri |-> wasm_uri, thread_id |-> "t1"]

\* LocalInstanceKey::from: the uri plus thread::current().id().
LocalInstanceKey_from(wasm_uri, cur) == [wasm_uri |-> wasm_uri, thread_id |-> cur]

VARIABLES
    ops,         \* number of load/with calls started so far
    modules,     \* modules::MODULES: the uris of the loaded modules
    INSTANCES,   \* the registry: key -> instance id, 0 when absent
    heap,        \* the Instances ever allocated, by id
    readers,     \* INSTANCES read guards held, per thread
    writer,      \* the thread holding the INSTANCES write guard, "" when none
    mutex,       \* owner of each registry entry's Mutex, "" when free
    poisoned,    \* ids whose Mutex a panic poisoned
    stack,       \* per thread: the frames of its (nested) load/with calls
    dead,        \* threads that panicked
    \* --- SpecChannel: one Instance at byte level
    ci,          \* the Instance: loaded, pages of its memory, registered or removed
    cx,          \* Instance.context: the Context (ctx_bytes, swap_memory)
    view,        \* the guest's linear memory (its first ViewLen bytes)
    cc,          \* the call in progress: position, export, sizes, counters
    hs           \* history of the call in progress, for the properties

rvars == <<ops, modules, INSTANCES, heap, readers, writer, mutex, poisoned, stack, dead>>
cvars == <<ci, cx, view, cc, hs>>
vars == <<rvars, cvars>>

\* ------------------------------------------------------ pure helpers
\* The error code carried by a Result of the call path.
Code(res) ==
    CASE res = "NoExport" -> "ERR_CODE_NONE"
      [] res = "NotInitialized" -> "ERR_CODE_NONE"
      [] res = "MemGrowFailed" -> "ERR_CODE_MEM"
      [] OTHER -> ""

\* A lookup that never finds the entry.
registry_get_mut(reg, key) == 0

\* INSTANCES.read().unwrap().get(&key)
registry_get(reg, key) == reg[key]

\* exports.get_native_function(sign_name): Ok iff the module exports it.
get_native_function(wasm_uri, sign_name) == sign_name \in Exports(wasm_uri)

\* Memory::grow(delta): the new size, or failure beyond the maximum.
memory_grow(pages, delta) ==
    IF pages + delta <= MaxPages
    THEN [ok |-> TRUE, pages |-> pages + delta]
    ELSE [ok |-> FALSE, pages |-> pages]

\* A loop body that keeps looping when the growth fails.
invoke_instance_ret_nofatal(outcome, pages) ==
    IF outcome = "ok"
    THEN [loop |-> FALSE, res |-> "Ok", pages |-> pages, growFailed |-> FALSE]
    ELSE IF outcome = "oom"
    THEN [loop |-> TRUE, res |-> "", pages |-> memory_grow(pages, 1).pages,
          growFailed |-> ~memory_grow(pages, 1).ok]
    ELSE [loop |-> TRUE, res |-> "", pages |-> pages, growFailed |-> FALSE]

\* A loop body that retries an OOM trap without growing the memory.
invoke_instance_ret_nogrow(outcome, pages) ==
    IF outcome = "ok"
    THEN [loop |-> FALSE, res |-> "Ok", pages |-> pages, growFailed |-> FALSE]
    ELSE [loop |-> TRUE, res |-> "", pages |-> pages, growFailed |-> FALSE]

\* invoke_instance, lines 261-276: what the loop does with the export's
\* outcome ("ok", "oom": a trap whose text contains OOM, "trap": any other).
invoke_instance_ret(outcome, pages) ==
    IF outcome = "ok"
    THEN [loop |-> FALSE, res |-> "Ok", pages |-> pages, growFailed |-> FALSE]
    ELSE IF outcome = "oom"
    THEN IF memory_grow(pages, 1).ok
         THEN [loop |-> TRUE, res |-> "", pages |-> memory_grow(pages, 1).pages,
               growFailed |-> FALSE]
         ELSE [loop |-> FALSE, res |-> "MemGrowFailed", pages |-> pages,
               growFailed |-> TRUE]
    ELSE [loop |-> TRUE, res |-> "", pages |-> pages, growFailed |-> FALSE]

\* An init that swallows every failure of the onload export.
init_ret_lenient(res) == "Ok"

\* An init that reports the missing onload export as a failure.
init_ret_strict(res) == IF res = "Ok" THEN "Ok" ELSE "InitFailed"

\* Instance::init, lines 217-227: the Result init returns for the Result of
\* invoke_instance(onload_symbol, None).
init_ret(res) ==
    IF res = "Ok" THEN "Ok"
    ELSE IF Code(res) = "ERR_CODE_NONE" THEN "Ok"
    ELSE "InitFailed"

\* ------------------------------------------------------------ frames
NewFrame(op, uri) ==
    [op |-> op, uri |-> uri, pc |-> "instantiate",
     ins |-> 0, hit |-> FALSE, sym |-> "", calls |-> 0, ooms |-> 0, traps |-> 0,
     growFailed |-> FALSE, pages0 |-> 0, res |-> "", ncalls |-> 0]

Depth(t) == Len(stack[t])
Top(t) == stack[t][Len(stack[t])]
SetTop(t, f) == [stack EXCEPT ![t] = [@ EXCEPT ![Len(@)] = f]]
At(t, pc) == ~dead[t] /\ Depth(t) > 0 /\ Top(t).pc = pc
KeyOf(t) == LocalInstanceKey_from(Top(t).uri, t)
NoReaders == \A u \in Threads : readers[u] = 0

\* A slot of the allocator that holds no Instance (never allocated, or dropped).
Free == [key |-> [wasm_uri |-> "a", thread_id |-> "t1"], loaded |-> FALSE,
         pages |-> 0, st |-> "free", creator |-> "", by |-> "", inits |-> 0,
         onloadOk |-> 0]

\* The slot alloc(Layout::new::<Instance>()) returns: any free one; the model
\* takes the lowest.
FreeIds == {i \in Ids : heap[i].st = "free"}
alloc == CHOOSE i \in FreeIds : \A j \in FreeIds : i <= j

InitRegistry ==
    /\ ops = 0
    /\ modules = {}
    /\ INSTANCES = [k \in Keys |-> 0]
    /\ heap = [i \in Ids |-> Free]
    /\ readers = [t \in Threads |-> 0]
    /\ writer = ""
    /\ mutex = [i \in Ids |-> ""]
    /\ poisoned = {}
    /\ stack = [t \in Threads |-> <<>>]
    /\ dead = [t \in Threads |-> FALSE]

\* A panic unwinds every frame of the thread: its guards are dropped, and every
\* Mutex it held is poisoned.
Panic(t) ==
    /\ dead' = [dead EXCEPT ![t] = TRUE]
    /\ stack' = [stack EXCEPT ![t] = <<>>]
    /\ readers' = [readers EXCEPT ![t] = 0]
    /\ poisoned' = poisoned \cup {i \in Ids : mutex[i] = t}
    /\ mutex' = [i \in Ids |-> IF mutex[i] = t THEN "" ELSE mutex[i]]

\* ------------------------------------------------------------ actions
\* load(wasm_file): modules::load registers the module, then
\* Instance::load_and_new_local builds an Instance for the calling thread.
load(t, uri) ==
    /\ ~dead[t] /\ Depth(t) = 0
    /\ ops < MaxOps /\ ops' = ops + 1
    /\ modules' = modules \cup {uri}
    /\ stack' = [stack EXCEPT ![t] = <<NewFrame("load", uri)>>]
    /\ UNCHANGED <<INSTANCES, heap, readers, mutex, poisoned, dead>>
    /\ UNCHANGED <<writer, cvars>>

\* with, lines 77-79: the key of the calling thread, the read lock, the lookup.
\* On a hit the read guard stays held for the callback; on a miss it is dropped.
with_frame(t, uri) ==
    LET id == registry_get(INSTANCES, LocalInstanceKey_from(uri, t)) IN
      IF id # 0
      THEN [NewFrame("with", uri) EXCEPT !.hit = TRUE, !.ins = id, !.pc = "lock"]
      ELSE [NewFrame("with", uri) EXCEPT !.pc = "new_local"]

\* with(wasm_uri, callback) called by host code outside any callback.
with(t, uri) ==
    /\ ~dead[t] /\ Depth(t) = 0
    /\ writer = ""
    /\ ops < MaxOps /\ ops' = ops + 1
    /\ stack' = [stack EXCEPT ![t] = <<with_frame(t, uri)>>]
    /\ readers' = [readers EXCEPT ![t] = IF with_frame(t, uri).hit THEN @ + 1 ELSE @]
    /\ UNCHANGED <<modules, INSTANCES, heap, mutex, poisoned, dead>>
    /\ UNCHANGED <<writer, cvars>>

\* with() called again on the same thread: by the callback itself, or by the
\* host method that vm_invoke dispatches to while the guest is inside
\* _vm_invoke (the Context is then mutably borrowed by use_ctx_swap_memory).
with_reentrant(t, uri) ==
    /\ ~dead[t] /\ Depth(t) > 0 /\ Depth(t) < MaxDepth
    /\ Top(t).pc \in {"guest", "callback"}
    /\ writer = ""
    /\ ops < MaxOps /\ ops' = ops + 1
    /\ stack' = [stack EXCEPT ![t] =
          Append([@ EXCEPT ![Len(@)].pc = IF @ = "guest" THEN "host" ELSE "cb_nested"],
                 with_frame(t, uri))]
    /\ readers' = [readers EXCEPT ![t] = IF with_frame(t, uri).hit THEN @ + 1 ELSE @]
    /\ UNCHANGED <<modules, INSTANCES, heap, mutex, poisoned, dead>>
    /\ UNCHANGED <<writer, cvars>>

\* with, line 80: ins.lock().unwrap(), then the callback gets the Instance.
with_lock(t) ==
    /\ At(t, "lock")
    /\ mutex[Top(t).ins] = ""
    /\ IF Top(t).ins \in poisoned
       THEN /\ Panic(t)
       ELSE /\ mutex' = [mutex EXCEPT ![Top(t).ins] = t]
            /\ stack' = SetTop(t, [Top(t) EXCEPT !.pc = "callback"])
            /\ UNCHANGED <<readers, poisoned, dead>>
    /\ UNCHANGED <<ops, modules, INSTANCES, heap>>
    /\ UNCHANGED <<writer, cvars>>

\* A new_local that goes on to build the Instance without the module lookup.
new_local_unchecked(t) ==
    /\ At(t, "new_local")
    /\ stack' = SetTop(t, [Top(t) EXCEPT !.pc = "instantiate"])
    /\ UNCHANGED <<ops, modules, INSTANCES, heap, readers, mutex, poisoned, dead>>
    /\ UNCHANGED <<writer, cvars>>

\* Instance::new_local: the module of the key, or "not found module".
new_local(t) ==
    /\ At(t, "new_local")
    /\ stack' = SetTop(t, IF Top(t).uri \in modules
                          THEN [Top(t) EXCEPT !.pc = "instantiate"]
                          ELSE [Top(t) EXCEPT !.pc = "ret", !.res = "ModuleNotFound"])
    /\ UNCHANGED <<ops, modules, INSTANCES, heap, readers, mutex, poisoned, dead>>
    /\ UNCHANGED <<writer, cvars>>

\* Instance::from_module, lines 156-165: InstanceEnv::from, new_import_object and
\* wasmer::Instance::new; either of the last two may fail (the ? operator).
from_module(t, ok) ==
    /\ At(t, "instantiate")
    /\ IF ok
       THEN /\ FreeIds # {}
            /\ heap' = [heap EXCEPT ![alloc] =
                           [key |-> KeyOf(t), loaded |-> FALSE, pages |-> InitPages,
                            st |-> "unregistered", creator |-> t, by |-> Top(t).op,
                            inits |-> 0, onloadOk |-> 0]]
            /\ stack' = SetTop(t, [Top(t) EXCEPT !.ins = alloc, !.pc = "init_instance"])
       ELSE /\ stack' = SetTop(t, [Top(t) EXCEPT !.pc = "ret", !.res = "InstantiateFailed"])
            /\ UNCHANGED heap
    /\ UNCHANGED <<ops, modules, INSTANCES, readers, mutex, poisoned, dead>>
    /\ UNCHANGED <<writer, cvars>>

\* INSTANCES.write().unwrap() of lines 57 and 172: the write guard is granted
\* when no guard is held, by this thread or another, and blocks until then.
INSTANCES_write(t) ==
    /\ At(t, "init_instance") \/ At(t, "remove")
    /\ writer = "" /\ NoReaders
    /\ writer' = t
    /\ UNCHANGED <<ops, modules, INSTANCES, heap, readers, mutex, poisoned, stack, dead>>
    /\ UNCHANGED cvars

\* An init_instance that keeps the write guard after the insert.
init_instance_hold(t) ==
    /\ At(t, "init_instance")
    /\ writer = t
    /\ LET f == Top(t)
           key == heap[f.ins].key
           old == INSTANCES[key] IN
         /\ INSTANCES' = [INSTANCES EXCEPT ![key] = f.ins]
         /\ heap' = [i \in Ids |->
                       IF i = f.ins THEN [heap[i] EXCEPT !.st = "registered", !.inits = @ + 1]
                       ELSE IF i = old THEN Free
                       ELSE heap[i]]
         /\ stack' = SetTop(t, [f EXCEPT !.pc = "call_export", !.sym = onload_symbol,
                                         !.calls = 0, !.ooms = 0, !.traps = 0,
                                         !.growFailed = FALSE,
                                         !.pages0 = heap[f.ins].pages])
    /\ UNCHANGED <<ops, modules, readers, mutex, poisoned, dead>>
    /\ UNCHANGED <<writer, cvars>>

\* InstanceEnv::init_instance under the write lock, then the entry into
\* Instance::init (from_module, lines 168-171). An entry the insert replaces is
\* dropped.
init_instance(t) ==
    /\ At(t, "init_instance")
    /\ writer = t
    /\ writer' = ""
    /\ LET f == Top(t)
           key == heap[f.ins].key
           old == INSTANCES[key] IN
         /\ INSTANCES' = [INSTANCES EXCEPT ![key] = f.ins]
         /\ heap' = [i \in Ids |->
                       IF i = f.ins THEN [heap[i] EXCEPT !.st = "registered", !.inits = @ + 1]
                       ELSE IF i = old THEN Free
                       ELSE heap[i]]
         /\ stack' = SetTop(t, [f EXCEPT !.pc = "call_export", !.sym = onload_symbol,
                                         !.calls = 0, !.ooms = 0, !.traps = 0,
                                         !.growFailed = FALSE,
                                         !.pages0 = heap[f.ins].pages])
    /\ UNCHANGED <<ops, modules, readers, mutex, poisoned, dead>>
    /\ UNCHANGED cvars

\* Where invoke_instance returns to: Instance::init or call_wasm_handler.
AfterInvoke(f) == IF f.sym = onload_symbol THEN "init_done" ELSE "callback"

\* invoke_instance, lines 250-260: look the export up and call it.
invoke_instance_call(t) ==
    /\ At(t, "call_export")
    /\ LET f == Top(t) IN
         stack' = SetTop(t, IF get_native_function(f.uri, f.sym)
                            THEN [f EXCEPT !.pc = "guest", !.calls = @ + 1]
                            ELSE [f EXCEPT !.pc = AfterInvoke(f), !.res = "NoExport"])
    /\ UNCHANGED <<ops, modules, INSTANCES, heap, readers, mutex, poisoned, dead>>
    /\ UNCHANGED <<writer, cvars>>

\* The export returns or traps; invoke_instance, lines 261-276, loops or returns.
\* call_wasm_handler then returns to the callback (out_rets on success).
invoke_instance_loop(t, outcome) ==
    /\ At(t, "guest")
    /\ outcome = "trap" => Top(t).traps < MaxTraps
    /\ LET f == Top(t)
           r == invoke_instance_ret(outcome, heap[f.ins].pages) IN
         /\ stack' = SetTop(t, [f EXCEPT
                !.pc = IF r.loop THEN "call_export" ELSE AfterInvoke(f),
                !.res = r.res,
                !.ooms = IF outcome = "oom" THEN @ + 1 ELSE @,
                !.traps = IF outcome = "trap" THEN @ + 1 ELSE @,
                !.growFailed = r.growFailed])
         /\ heap' = [heap EXCEPT ![f.ins].pages = r.pages,
                                 ![f.ins].onloadOk =
                                     IF f.sym = onload_symbol /\ outcome = "ok"
                                     THEN @ + 1 ELSE @]
    /\ UNCHANGED <<ops, modules, INSTANCES, readers, mutex, poisoned, dead>>
    /\ UNCHANGED <<writer, cvars>>

\* Instance::init, lines 228-229, and from_module, lines 171-175: loaded is set
\* whatever the outcome; a failed init goes on to remove the entry.
init_done(t) ==
    /\ At(t, "init_done")
    /\ LET f == Top(t)
           ret == init_ret(f.res) IN
         /\ heap' = [heap EXCEPT ![f.ins].loaded = TRUE]
         /\ stack' = SetTop(t,
                IF ret # "Ok" THEN [f EXCEPT !.pc = "remove", !.res = ret]
                ELSE IF f.op = "with" THEN [f EXCEPT !.pc = "callback", !.res = ""]
                ELSE [f EXCEPT !.pc = "ret", !.res = "Ok"])
    /\ UNCHANGED <<ops, modules, INSTANCES, readers, mutex, poisoned, dead>>
    /\ UNCHANGED <<writer, cvars>>

\* from_module, line 172: INSTANCES.write().unwrap().remove(&ins_env.key).
from_module_remove(t) ==
    /\ At(t, "remove")
    /\ writer = t
    /\ writer' = ""
    /\ LET f == Top(t)
           key == heap[f.ins].key
           old == INSTANCES[key] IN
         /\ INSTANCES' = [INSTANCES EXCEPT ![key] = 0]
         /\ heap' = [i \in Ids |-> IF i = old THEN Free
                                   ELSE heap[i]]
         /\ stack' = SetTop(t, [f EXCEPT !.pc = "ret", !.ins = 0])
    /\ UNCHANGED <<ops, modules, readers, mutex, poisoned, dead>>
    /\ UNCHANGED cvars

\* A Context whose borrow is never seen as taken.
Borrowed_never(t, i) == FALSE

\* The Context of instance i is mutably borrowed by a frame of t that sits in
\* use_ctx_swap_memory (the guest is inside _vm_invoke).
Borrowed(t, i) ==
    \E n \in 1..(Len(stack[t]) - 1) : stack[t][n].ins = i /\ stack[t][n].pc = "host"

\* The callback calls Instance::call_wasm_handler(ctx, method, in_args), lines
\* 240-244: check_loaded, then set_args under context.borrow_mut(), which
\* panics when the Context is already borrowed, then invoke_instance.
call_wasm_handler(t, method) ==
    /\ At(t, "callback")
    /\ Top(t).ncalls < MaxCalls
    /\ LET f == [Top(t) EXCEPT !.ncalls = @ + 1, !.sym = method_to_symbol(method)] IN
         IF ~heap[f.ins].loaded
         THEN /\ stack' = SetTop(t, [f EXCEPT !.res = "NotInitialized"])
              /\ UNCHANGED <<readers, mutex, poisoned, dead>>
         ELSE IF Borrowed(t, f.ins)
         THEN Panic(t)
         ELSE /\ stack' = SetTop(t, [f EXCEPT !.pc = "call_export", !.calls = 0,
                                              !.ooms = 0, !.traps = 0,
                                              !.growFailed = FALSE, !.res = "",
                                              !.pages0 = heap[f.ins].pages])
              /\ UNCHANGED <<readers, mutex, poisoned, dead>>
    /\ UNCHANGED <<ops, modules, INSTANCES, heap>>
    /\ UNCHANGED <<writer, cvars>>

\* The callback returns: with returns its Result.
callback_return(t) ==
    /\ At(t, "callback")
    /\ stack' = SetTop(t, [Top(t) EXCEPT !.pc = "ret", !.sym = "", !.calls = 0,
                                         !.ooms = 0, !.traps = 0, !.pages0 = 0,
                                         !.growFailed = FALSE, !.ncalls = 0,
                                         !.res = IF @ = "" THEN "Ok" ELSE @])
    /\ UNCHANGED <<ops, modules, INSTANCES, heap, readers, mutex, poisoned, dead>>
    /\ UNCHANGED <<writer, cvars>>

\* load or with returns to its caller: the guards of a hit are dropped, and a
\* re-entered frame resumes.
return(t) ==
    /\ At(t, "ret")
    /\ LET f == Top(t)
           rest == SubSeq(stack[t], 1, Len(stack[t]) - 1) IN
         /\ stack' = [stack EXCEPT ![t] =
               IF rest = <<>> THEN rest
               ELSE [rest EXCEPT ![Len(rest)].pc = IF @ = "host" THEN "guest" ELSE "callback"]]
         /\ readers' = [readers EXCEPT ![t] = IF f.hit THEN @ - 1 ELSE @]
         /\ mutex' = IF f.hit THEN [mutex EXCEPT ![f.ins] = ""] ELSE mutex
    /\ UNCHANGED <<ops, modules, INSTANCES, heap, poisoned, dead>>
    /\ UNCHANGED <<writer, cvars>>

Next ==
    \E t \in Threads :
        \/ \E uri \in Uris : load(t, uri)
        \/ \E uri \in Uris : with(t, uri)
        \/ \E uri \in Uris : with_reentrant(t, uri)
        \/ with_lock(t)
        \/ new_local(t)
        \/ \E ok \in BOOLEAN : from_module(t, ok)
        \/ INSTANCES_write(t)
        \/ init_instance(t)
        \/ invoke_instance_call(t)
        \/ \E outcome \in {"ok", "oom", "trap"} : invoke_instance_loop(t, outcome)
        \/ init_done(t)
        \/ from_module_remove(t)
        \/ \E method \in Methods : call_wasm_handler(t, method)
        \/ callback_return(t)
        \/ return(t)

\* ------------------------------------------------ Context and memory
\* An uninitialised byte of a Vec's spare capacity.
Uninit == 0 - 1
Bytes == {1, 2}
\* The encoded messages of the model, one per length up to MaxLen: arguments
\* start with byte 1, host results and contexts with byte 2.
Msg(n, b) == [i \in 1..n |-> IF i % 2 = 1 THEN b ELSE 3 - b]
ArgMsgs == {Msg(n, 1) : n \in 0..MaxLen}
HostResults == {Msg(n, 2) : n \in 0..MaxLen}
Max(a, b) == IF a >= b THEN a ELSE b

\* A Vec<u8>: its allocation (buf, as long as the capacity) and its length.
Content(v) == SubSeq(v.buf, 1, v.len)
Capacity(v) == Len(v.buf)

\* Vec::with_capacity(capacity)
Vec_with_capacity(capacity) == [buf |-> [i \in 1..capacity |-> Uninit], len |-> 0]

\* Context::with_capacity, lines 101-103.
Context_with_capacity(capacity) ==
    [ctx_bytes |-> Vec_with_capacity(capacity), swap_memory |-> Vec_with_capacity(capacity)]

\* A resize that never lowers the length.
resize_with_capacity_keep(buffer, new_size) ==
    IF new_size > Capacity(buffer)
    THEN [buf |-> [i \in 1..Max(2 * Capacity(buffer), new_size) |->
                     IF i <= buffer.len THEN buffer.buf[i]
                     ELSE IF i <= new_size THEN 0 ELSE Uninit],
          len |-> new_size]
    ELSE [buffer EXCEPT !.len = Max(buffer.len, new_size)]

\* resize_with_capacity, lines 340-346: Vec::resize(new_size, 0) beyond the
\* capacity (the allocation grows to at least twice its size), set_len within.
resize_with_capacity(buffer, new_size) ==
    IF new_size > Capacity(buffer)
    THEN [buf |-> [i \in 1..Max(2 * Capacity(buffer), new_size) |->
                     IF i <= buffer.len THEN buffer.buf[i]
                     ELSE IF i <= new_size THEN 0 ELSE Uninit],
          len |-> new_size]
    ELSE [buffer EXCEPT !.len = new_size]

\* write_to_vec and write_to_with_cached_sizes, lines 326-338: the buffer is
\* resized to the encoded size and the encoding written from its start; msg is
\* the message's encoding.
write_to_vec(msg, buffer) ==
    LET b == resize_with_capacity(buffer, Len(msg)) IN
      [b EXCEPT !.buf = [i \in 1..Len(b.buf) |-> IF i <= Len(msg) THEN msg[i] ELSE b.buf[i]]]

\* An absent context (ctx: Option<M>), and the contexts of the model.
None == [some |-> FALSE, msg |-> <<>>]
Some(msg) == [some |-> TRUE, msg |-> msg]
CtxOpts == {None, Some(Msg(1, 2))}

\* Context::set_args, lines 105-117.
set_args(context, ctx, in_args) ==
    LET swap == write_to_vec(in_args, context.swap_memory)
        args_size == swap.len
        cb == IF ctx.some THEN write_to_vec(ctx.msg, context.ctx_bytes)
              ELSE [context.ctx_bytes EXCEPT !.len = 0]
    IN [context |-> [ctx_bytes |-> cb,
                     swap_memory |-> IF args_size = 0 THEN [swap EXCEPT !.len = 0] ELSE swap],
        ctx_size |-> IF ctx.some THEN cb.len ELSE 0,
        args_size |-> args_size]

\* Context::out_rets, lines 119-128: rets is the encoding that is parsed (empty
\* for OutRets::new()).
out_rets(context) ==
    [context |-> [ctx_bytes |-> [context.ctx_bytes EXCEPT !.len = 0],
                  swap_memory |-> [context.swap_memory EXCEPT !.len = 0]],
     rets |-> IF context.swap_memory.len > 0 THEN Content(context.swap_memory) ELSE <<>>]

\* A copy into the guest memory that ignores the offset.
set_view_bytes_at0(v, offset, data) ==
    [i \in 1..Len(v) |-> IF i <= Len(data) THEN data[i] ELSE v[i]]

\* Instance::set_view_bytes, lines 305-310.
set_view_bytes(v, offset, data) ==
    [i \in 1..Len(v) |->
        IF i > offset /\ i <= offset + Len(data) THEN data[i - offset] ELSE v[i]]

\* A ctx_write_to that leaves swap_memory's length as it was.
ctx_write_to_keep(context, v, is_ctx, offset) ==
    LET cache == IF is_ctx THEN context.ctx_bytes ELSE context.swap_memory IN
      [view |-> set_view_bytes(v, offset, Content(cache)), context |-> context]

\* Instance::ctx_write_to, lines 279-290: the buffer goes to the guest memory
\* at offset; swap_memory is then emptied, ctx_bytes is kept.
ctx_write_to(context, v, is_ctx, offset) ==
    LET cache == IF is_ctx THEN context.ctx_bytes ELSE context.swap_memory IN
      [view |-> set_view_bytes(v, offset, Content(cache)),
       context |-> IF is_ctx THEN context
                   ELSE [context EXCEPT !.swap_memory.len = 0]]

\* A read_view_bytes whose zero-size case returns without touching the buffer.
read_view_bytes_noresize(v, offset, size, buffer) ==
    IF size = 0 THEN buffer
    ELSE [buffer EXCEPT !.buf = [i \in 1..Len(buffer.buf) |->
                                    IF i <= size THEN v[offset + i] ELSE buffer.buf[i]]]

\* Instance::read_view_bytes, lines 311-322.
read_view_bytes(v, offset, size, buffer) ==
    IF size = 0 THEN resize_with_capacity(buffer, size)
    ELSE [buffer EXCEPT !.buf = [i \in 1..Len(buffer.buf) |->
                                    IF i <= size THEN v[offset + i] ELSE buffer.buf[i]]]

\* Instance::use_ctx_swap_memory, lines 292-296, with the closure of
\* _vm_restore and the first line of the closure of _vm_invoke: swap_memory is
\* resized to size (when size > 0) and filled from the guest memory.
use_ctx_swap_memory_read(context, v, offset, size) ==
    LET cache == IF size > 0 THEN resize_with_capacity(context.swap_memory, size)
                 ELSE context.swap_memory
    IN [context EXCEPT !.swap_memory = read_view_bytes(v, offset, size, cache)]

\* An _vm_invoke that returns the length swap_memory had before the result
\* was written.
vm_invoke_write_stale(context, result) ==
    [context |-> [context EXCEPT !.swap_memory = write_to_vec(result, context.swap_memory)],
     ret |-> context.swap_memory.len]

\* _vm_invoke, lines 208-209: write_to_vec(&vm_invoke(buffer), buffer) writes
\* the host method's encoded result into swap_memory; the buffer's new length
\* is the import's return value.
vm_invoke_write(context, result) ==
    LET swap == write_to_vec(result, context.swap_memory) IN
      [context |-> [context EXCEPT !.swap_memory = swap], ret |-> swap.len]

\* A call_wasm_handler that encodes the arguments before it checks loaded.
call_wasm_handler_enter_late(loaded, context, ctx, in_args) ==
    LET r == set_args(context, ctx, in_args) IN
      IF loaded THEN [res |-> "", context |-> r.context, ctx_size |-> r.ctx_size,
                      args_size |-> r.args_size]
      ELSE [res |-> "NotInitialized", context |-> r.context, ctx_size |-> 0,
            args_size |-> 0]

\* call_wasm_handler, lines 240-242: check_loaded()? and then set_args.
call_wasm_handler_enter(loaded, context, ctx, in_args) ==
    IF ~loaded
    THEN [res |-> "NotInitialized", context |-> context, ctx_size |-> 0, args_size |-> 0]
    ELSE LET r == set_args(context, ctx, in_args) IN
           [res |-> "", context |-> r.context, ctx_size |-> r.ctx_size,
            args_size |-> r.args_size]

\* ------------------------------------------- one Instance at byte level
\* The Instance of SpecChannel is an Instance of module "a" that from_module
\* has just registered (lines 160-168); Instance::init comes next.
Idle == [pc |-> "init", sym |-> "", n |-> 0, ctx_size |-> 0, args_size |-> 0,
         calls |-> 0, ooms |-> 0, traps |-> 0, res |-> ""]
NoInvoke == [st |-> "", arg |-> <<>>, ret |-> 0, res |-> <<>>]
NoHistory == [steps |-> 0, last |-> <<>>, produced |-> <<>>, rets |-> <<>>, retn |-> 0,
              rt |-> [st |-> "", off |-> 0, p |-> <<>>], nested |-> "",
              inv |-> NoInvoke]

InitChannel ==
    /\ ci = [loaded |-> FALSE, pages |-> InitPages, st |-> "registered"]
    /\ cx = Context_with_capacity(InitCapacity)
    /\ view = [i \in 1..ViewLen |-> 0]
    /\ cc = Idle
    /\ hs = NoHistory

Init == InitRegistry /\ InitChannel

Offsets == 0..(ViewLen - 1)
GuestStep == cc.pc = "guest" /\ hs.steps < MaxGuestSteps

\* Instance::init, line 217: invoke_instance(onload_symbol, None) calls the export.
instance_init ==
    /\ cc.pc = "init"
    /\ cc' = [cc EXCEPT !.pc = "guest", !.sym = onload_symbol, !.calls = 1]
    /\ UNCHANGED <<ci, cx, view, hs>>
    /\ UNCHANGED rvars

\* _vm_recall, lines 187-192.
vm_recall(is_ctx, offset) ==
    /\ GuestStep
    /\ offset + (IF is_ctx THEN cx.ctx_bytes.len ELSE cx.swap_memory.len) <= ViewLen
    /\ LET r == ctx_write_to(cx, view, is_ctx, offset) IN
         /\ cx' = r.context
         /\ view' = r.view
         /\ hs' = [hs EXCEPT !.steps = @ + 1,
                             !.last = IF is_ctx THEN @ ELSE <<>>,
                             !.rt = IF is_ctx THEN [st |-> "", off |-> 0, p |-> <<>>]
                                    ELSE [st |-> "recalled", off |-> offset,
                                          p |-> Content(cx.swap_memory)],
                             !.inv = NoInvoke]
    /\ UNCHANGED <<ci, cc>>
    /\ UNCHANGED rvars

\* _vm_restore, lines 193-201.
vm_restore(offset, size) ==
    /\ GuestStep
    /\ offset + size <= ViewLen
    /\ cx' = use_ctx_swap_memory_read(cx, view, offset, size)
    /\ hs' = [hs EXCEPT !.steps = @ + 1,
                        !.last = SubSeq(view, offset + 1, offset + size),
                        !.produced = SubSeq(view, offset + 1, offset + size),
                        !.rt = IF hs.rt.st = "recalled" /\ hs.rt.off = offset
                                  /\ Len(hs.rt.p) = size
                               THEN [@ EXCEPT !.st = "restored"]
                               ELSE [st |-> "", off |-> 0, p |-> <<>>],
                        !.inv = NoInvoke]
    /\ UNCHANGED <<ci, view, cc>>
    /\ UNCHANGED rvars

\* _vm_invoke, lines 202-207: the call descriptor is read into swap_memory and
\* handed to vm_invoke, the host-side dispatcher; the Context stays borrowed.
vm_invoke(offset, size) ==
    /\ GuestStep
    /\ offset + size <= ViewLen
    /\ cx' = use_ctx_swap_memory_read(cx, view, offset, size)
    /\ hs' = [hs EXCEPT !.steps = @ + 1,
                        !.last = SubSeq(view, offset + 1, offset + size),
                        !.rt = [st |-> "", off |-> 0, p |-> <<>>],
                        !.inv = [st |-> "called", ret |-> 0, res |-> <<>>,
                                 arg |-> Content(
                                    use_ctx_swap_memory_read(cx, view, offset, size).swap_memory)]]
    /\ cc' = [cc EXCEPT !.pc = "host"]
    /\ UNCHANGED <<ci, view>>
    /\ UNCHANGED rvars

\* The host method calls call_wasm_handler on this same Instance (through
\* with, a registry hit). Before the Instance is loaded the call fails in
\* check_loaded; afterwards it panics in context.borrow_mut() (or blocks on the
\* Mutex the outer with holds): the thread does not come back.
host_call_wasm_handler(ctx, in_args) ==
    /\ cc.pc = "host"
    /\ hs.nested = ""
    /\ LET r == call_wasm_handler_enter(ci.loaded, cx, ctx, in_args) IN
         IF r.res = "NotInitialized"
         THEN /\ cx' = r.context
              /\ hs' = [hs EXCEPT !.nested = r.res]
              /\ cc' = cc
         ELSE /\ cx' = cx
              /\ hs' = [hs EXCEPT !.nested = "panic"]
              /\ cc' = [cc EXCEPT !.pc = "panicked"]
    /\ UNCHANGED <<ci, view>>
    /\ UNCHANGED rvars

\* _vm_invoke, lines 208-209: the host method's encoded result replaces
\* swap_memory; its length is the import's return value.
vm_invoke_ret(result) ==
    /\ cc.pc = "host"
    /\ cx' = vm_invoke_write(cx, result).context
    /\ hs' = [hs EXCEPT !.last = result, !.produced = result,
                        !.inv = [st |-> "returned", arg |-> <<>>, res |-> result,
                                 ret |-> vm_invoke_write(cx, result).ret]]
    /\ cc' = [cc EXCEPT !.pc = "guest"]
    /\ UNCHANGED <<ci, view>>
    /\ UNCHANGED rvars

\* The guest stores a byte in its own memory.
guest_store(addr, b) ==
    /\ GuestStep
    /\ view[addr] # b
    /\ view' = [view EXCEPT ![addr] = b]
    /\ hs' = [hs EXCEPT !.steps = @ + 1, !.rt = [st |-> "", off |-> 0, p |-> <<>>],
                        !.inv = NoInvoke]
    /\ UNCHANGED <<ci, cx, cc>>
    /\ UNCHANGED rvars

\* The export returns or traps: invoke_instance, lines 261-276, retries it or
\* returns; Instance::init then sets loaded (a failed init ends in the removal
\* of the entry), call_wasm_handler then decodes the result with out_rets.
export_ret(outcome) ==
    /\ cc.pc = "guest"
    /\ outcome = "trap" => cc.traps < MaxTraps
    /\ LET r == invoke_instance_ret(outcome, ci.pages)
           c == [cc EXCEPT !.ooms = IF outcome = "oom" THEN @ + 1 ELSE @,
                           !.traps = IF outcome = "trap" THEN @ + 1 ELSE @,
                           !.res = r.res]
           o == out_rets(cx) IN
         IF r.loop
         THEN /\ cc' = [c EXCEPT !.calls = @ + 1]
              /\ ci' = [ci EXCEPT !.pages = r.pages]
              /\ hs' = [hs EXCEPT !.rt = [st |-> "", off |-> 0, p |-> <<>>], !.nested = "",
                                  !.inv = NoInvoke]
              /\ cx' = cx
         ELSE IF cc.sym = onload_symbol
         THEN /\ cc' = [c EXCEPT !.pc = IF init_ret(r.res) = "Ok" THEN "idle" ELSE "removed"]
              /\ ci' = [ci EXCEPT !.loaded = TRUE,
                                  !.st = IF init_ret(r.res) = "Ok" THEN @ ELSE "removed"]
              /\ hs' = [hs EXCEPT !.rt = [st |-> "", off |-> 0, p |-> <<>>], !.nested = "",
                                  !.inv = NoInvoke]
              /\ cx' = cx
         ELSE /\ cc' = [c EXCEPT !.pc = "idle"]
              /\ ci' = ci
              /\ cx' = IF r.res = "Ok" THEN o.context ELSE cx
              /\ hs' = [hs EXCEPT !.rt = [st |-> "", off |-> 0, p |-> <<>>], !.nested = "",
                                  !.inv = NoInvoke,
                                  !.rets = IF r.res = "Ok" THEN o.rets ELSE @,
                                  !.retn = IF r.res = "Ok" THEN cc.n ELSE @]
    /\ UNCHANGED view
    /\ UNCHANGED rvars

\* Instance::call_wasm_handler(ctx, method, in_args) from a callback, lines
\* 240-244, up to the first invocation of the export.
instance_call_wasm_handler(ctx, in_args, method) ==
    /\ cc.pc = "idle"
    /\ cc.n < MaxChannelCalls
    /\ LET r == call_wasm_handler_enter(ci.loaded, cx, ctx, in_args)
           sym == method_to_symbol(method)
           found == get_native_function("a", sym) IN
         /\ cx' = r.context
         /\ cc' = [pc |-> IF r.res = "" /\ found THEN "guest" ELSE "idle",
                   sym |-> sym, n |-> cc.n + 1, ctx_size |-> r.ctx_size,
                   args_size |-> r.args_size,
                   calls |-> IF r.res = "" /\ found THEN 1 ELSE 0,
                   ooms |-> 0, traps |-> 0,
                   res |-> IF r.res # "" THEN r.res ELSE IF found THEN "" ELSE "NoExport"]
         /\ hs' = [hs EXCEPT !.last = in_args, !.produced = <<>>,
                             !.rt = [st |-> "", off |-> 0, p |-> <<>>], !.nested = "",
                             !.inv = NoInvoke]
    /\ UNCHANGED <<ci, view>>
    /\ UNCHANGED rvars

NextChannel ==
    \/ instance_init
    \/ \E is_ctx \in BOOLEAN : \E offset \in Offsets : vm_recall(is_ctx, offset)
    \/ \E offset \in Offsets : \E size \in 0..ViewLen : vm_restore(offset, size)
    \/ \E offset \in Offsets : \E size \in 0..ViewLen : vm_invoke(offset, size)
    \/ \E ctx \in CtxOpts : \E in_args \in ArgMsgs : host_call_wasm_handler(ctx, in_args)
    \/ \E result \in HostResults : vm_invoke_ret(result)
    \/ \E addr \in 1..ViewLen : \E b \in Bytes : guest_store(addr, b)
    \/ \E outcome \in {"ok", "oom", "trap"} : export_ret(outcome)
    \/ \E ctx \in CtxOpts : \E in_args \in ArgMsgs :
          \E method \in Methods : instance_call_wasm_handler(ctx, in_args, method)

Spec == Init /\ [][Next]_vars

SpecChannel == Init /\ [][NextChannel]_vars

\* ------------------------------------------------------------ claims
Frames(t) == {stack[t][n] : n \in 1..Len(stack[t])}
LoopPcs == {"call_export", "guest", "host"}
\* The frame is a with() whose callback holds the Instance.
InCallback(f) ==
    /\ f.op = "with"
    /\ \/ f.pc \in {"callback", "cb_nested"}
       \/ f.pc \in LoopPcs /\ f.sym # onload_symbol

\* C1 (Affinity): an Instance handed to a callback by with() on a thread was
\* created by that thread and carries that thread in its key, so no Instance is
\* ever handed to callbacks on two threads; every registry entry sits under the
\* key of the Instance it holds.
C1_Affinity ==
    /\ \A t \in Threads : \A f \in Frames(t) :
          InCallback(f) =>
             /\ heap[f.ins].st # "free"
             /\ heap[f.ins].creator = t
             /\ heap[f.ins].key = [wasm_uri |-> f.uri, thread_id |-> t]
    /\ \A t1 \in Threads : \A t2 \in Threads \ {t1} :
          \A f1 \in Frames(t1) : \A f2 \in Frames(t2) :
             InCallback(f1) /\ InCallback(f2) => f1.ins # f2.ins
    /\ \A i \in Ids : heap[i].st # "free" => heap[i].key.thread_id = heap[i].creator
    /\ \A k \in Keys : INSTANCES[k] # 0 => heap[INSTANCES[k]].key = k

\* Two threads are inside callbacks for the same module at the same time.
C1_Witness ==
    \E f1 \in Frames("t1") : \E f2 \in Frames("t2") :
        InCallback(f1) /\ InCallback(f2) /\ f1.uri = f2.uri

\* C2 (Idempotent re-lookup): a with() builds an Instance only when the registry
\* holds none for the key of the calling thread; every callback gets the
\* Instance registered under that key; that Instance went through Instance::init
\* exactly once, and once it is Ready its onload export has completed exactly
\* once (never, when the module has none); the Instance registered under a key
\* is replaced only by load and removed only by a failed construction.
C2_State ==
    \A t \in Threads : \A f \in Frames(t) :
       LET key == [wasm_uri |-> f.uri, thread_id |-> t] IN
         /\ f.op = "with" /\ f.pc = "init_instance" => INSTANCES[key] = 0
         /\ InCallback(f) =>
               /\ INSTANCES[key] = f.ins
               /\ heap[f.ins].inits = 1
               /\ heap[f.ins].loaded =>
                     heap[f.ins].onloadOk =
                        IF onload_symbol \in Exports(f.uri) THEN 1 ELSE 0
C2_Step ==
    \A k \in Keys :
       INSTANCES[k] # 0 /\ INSTANCES'[k] # INSTANCES[k] =>
          /\ At(k.thread_id, "init_instance") \/ At(k.thread_id, "remove")
          /\ At(k.thread_id, "init_instance") => Top(k.thread_id).op = "load"
C3_ConstructionRollback ==
    \A t \in Threads : \A f \in Frames(t) :
        f.sym = onload_symbol /\ f.traps > 0 =>
            /\ f.pc \in {"init_done", "remove", "ret"}
            /\ f.res # "Ok"
            /\ f.pc = "ret" => INSTANCES[[wasm_uri |-> f.uri, thread_id |-> t]] = 0

\* C4 (Non-OOM failures are not retried), as claimed: after an export call
\* failed with a non-OOM trap, invoke_instance has returned an error and the
\* export is not invoked again.
C4_NonOomNotRetried ==
    \A t \in Threads : \A f \in Frames(t) :
        f.traps > 0 => f.pc \notin LoopPcs /\ f.res \notin {"Ok", ""}

\* C5 (OOM recovery): when call_wasm_handler returns success after k OOM traps
\* and no other trap, the export was invoked exactly k + 1 times and the guest
\* memory is exactly k pages larger than when the call began.
C5_Returned(t) ==
    /\ Depth(t) > 0
    /\ Top(t).pc = "callback" /\ Top(t).sym \notin {"", onload_symbol}
    /\ Top(t).res = "Ok" /\ Top(t).traps = 0
C5_OomRecovery ==
    [][\A t \in Threads :
          At(t, "guest") /\ C5_Returned(t)' =>
             /\ Top(t)'.calls = Top(t)'.ooms + 1
             /\ heap'[Top(t).ins].pages = Top(t)'.pages0 + Top(t)'.ooms
             /\ Top(t)'.ooms > 0 => heap'[Top(t).ins].pages > Top(t)'.pages0]_vars

\* A call that returned success after two OOM traps.
C5_Witness ==
    \E t \in Threads : C5_Returned(t) /\ Top(t).ooms = 2 /\ Top(t).calls = 3

\* C6 (Growth failure is fatal): once Memory::grow has failed, invoke_instance
\* has returned the memory error: the export was invoked once per trap and not
\* again, and the memory was not grown further.
C6_GrowthFailureFatal ==
    \A t \in Threads : \A f \in Frames(t) :
        f.growFailed =>
            /\ f.pc \notin LoopPcs
            /\ f.res \in {"MemGrowFailed", "InitFailed"}
            /\ f.pc \in {"callback", "init_done"} =>
                  f.res = "MemGrowFailed" /\ Code(f.res) = "ERR_CODE_MEM"
            /\ f.calls = f.ooms + f.traps
            /\ f.ins # 0 => heap[f.ins].pages = MaxPages

\* call_wasm_handler returned the memory error to the callback.
C6_Witness ==
    \E t \in Threads : \E f \in Frames(t) :
        f.growFailed /\ f.pc = "callback" /\ f.sym = "_wasm_handle_0"

\* C10 (No-initializer tolerance): a construction of a module without the
\* onload export never fails in init: the Instance is Ready and registered when
\* from_module returns, it is never removed, and every call_wasm_handler on it
\* passes check_loaded.
C10_NoInitializer ==
    \A t \in Threads : \A f \in Frames(t) :
        onload_symbol \notin Exports(f.uri) =>
            /\ f.pc # "remove" /\ f.res \notin {"InitFailed", "NotInitialized"}
            /\ f.ins # 0 /\ f.pc \notin {"init_instance", "call_export", "init_done"} =>
                  /\ heap[f.ins].loaded
                  /\ INSTANCES[[wasm_uri |-> f.uri, thread_id |-> t]] = f.ins
            /\ InCallback(f) => heap[f.ins].loaded

\* A with() built an Instance of module "b" and its call passed the check.
C10_Witness ==
    \E t \in Threads : \E f \in Frames(t) :
        /\ f.uri = "b" /\ f.op = "with" /\ ~f.hit
        /\ f.pc = "callback" /\ f.sym = "_wasm_handle_0" /\ f.res = "Ok"

\* A call_wasm_handler call on the Instance of SpecChannel has returned Ok.
Returned == cc.pc = "idle" /\ cc.n > 0 /\ cc.res = "Ok"

\* C7 (Single occupancy), as claimed: the bytes call_wasm_handler decodes are
\* the bytes the most recent restore or invoke of the call wrote into
\* swap_memory (nothing when there was none), and swap_memory is empty after.
C7_SingleOccupancy ==
    Returned => hs.retn = cc.n /\ hs.rets = hs.produced /\ cx.swap_memory.len = 0

\* C7 as amended: the bytes call_wasm_handler decodes are exactly the logical
\* content of swap_memory when the export returns, which is what the last of
\* set_args, recall(is_context = false), restore and invoke of this same call
\* left there: the restored bytes or the host result, nothing after a recall,
\* and the call's own encoded arguments when the guest did none of the three.
\* No byte of a prior call and no byte beyond the logical length is decoded,
\* and both buffers are logically empty once the result is returned.
C7_SingleOccupancyAmended ==
    Returned =>
        /\ hs.retn = cc.n
        /\ hs.rets = hs.last
        /\ cx.swap_memory.len = 0
        /\ cx.ctx_bytes.len = 0

\* The second call returned a result that a restore produced, shorter than
\* what swap_memory physically still holds from before.
C7_Witness ==
    /\ Returned /\ cc.n = 2
    /\ hs.rets # <<>> /\ hs.rets = hs.produced
    /\ Capacity(cx.swap_memory) > Len(hs.rets)
    /\ cx.swap_memory.buf[Len(hs.rets) + 1] \in Bytes

\* C8 (Round trip): when the guest copies swap_memory out with
\* recall(is_context = false, offset) and straight back with
\* restore(offset, size), size being the payload's length, swap_memory holds
\* exactly the payload it held before the recall, the empty payload included.
C8_RoundTrip ==
    hs.rt.st = "restored" => Content(cx.swap_memory) = hs.rt.p

\* The round trip of encoded arguments longer than the initial capacity.
C8_Witness ==
    /\ hs.rt.st = "restored" /\ hs.rt.p \in ArgMsgs /\ Len(hs.rt.p) > InitCapacity
    /\ cc.sym = "_wasm_handle_0"

\* C9 (Not initialized): a call_wasm_handler call that reaches the Instance
\* before loaded is set returns the not-initialized error, and the step changes
\* neither buffer, nor the guest memory, nor the Instance, nor the invocation
\* in progress (no export is invoked).
C9_NotInitialized ==
    [][hs.nested = "" /\ hs'.nested # "" /\ ~ci.loaded =>
          /\ hs'.nested = "NotInitialized"
          /\ cx' = cx /\ view' = view /\ ci' = ci /\ cc' = cc]_vars

\* The host method reached from _wasm_onload called call_wasm_handler.
C9_Witness ==
    hs.nested = "NotInitialized" /\ ~ci.loaded /\ cc.sym = onload_symbol /\ cc.pc = "host"

C12_ModuleNotFound ==
    \A t \in Threads : \A f \in Frames(t) :
        LET key == [wasm_uri |-> f.uri, thread_id |-> t] IN
          /\ f.op = "with" /\ ~f.hit /\ f.pc \notin {"new_local", "ret"} =>
                f.uri \in modules
          /\ f.op = "with" /\ ~f.hit /\ f.pc = "ret" /\ f.uri \notin modules =>
                f.res = "ModuleNotFound"
          /\ f.res = "ModuleNotFound" =>
                /\ f.pc = "ret" /\ f.ins = 0 /\ ~f.hit
                /\ INSTANCES[key] = 0
                /\ \A i \in Ids : heap[i].st # "free" => heap[i].key # key

\* with() is about to return the not-found error while another module is
\* loaded and an Instance of it registered.
C12_Witness ==
    \E t \in Threads : \E f \in Frames(t) :
        /\ f.op = "with" /\ f.pc = "ret" /\ f.res = "ModuleNotFound"
        /\ f.uri \notin modules /\ modules # {}
        /\ \E k \in Keys : INSTANCES[k] # 0

\* C13 (recall consumption): recall(is_context = false, offset) copies the whole
\* of swap_memory into the guest memory at offset (no other byte of the guest
\* memory changes), then swap_memory is logically empty and ctx_bytes is as it
\* was; recall(is_context = true, offset) copies the whole of ctx_bytes and
\* changes neither buffer. So a second recall of the arguments copies nothing,
\* while the context can be recalled again.
C13_RecallConsumption ==
    [][\A is_ctx \in BOOLEAN : \A offset \in Offsets :
          vm_recall(is_ctx, offset) =>
             LET data == IF is_ctx THEN Content(cx.ctx_bytes)
                         ELSE Content(cx.swap_memory) IN
               /\ \A i \in 1..ViewLen :
                     view'[i] = IF i > offset /\ i <= offset + Len(data)
                                THEN data[i - offset] ELSE view[i]
               /\ cx'.ctx_bytes = cx.ctx_bytes
               /\ IF is_ctx THEN cx'.swap_memory = cx.swap_memory
                  ELSE /\ cx'.swap_memory.len = 0
                       /\ cx'.swap_memory.buf = cx.swap_memory.buf
               /\ cc' = cc /\ ci' = ci]_vars

\* The guest has recalled two-byte arguments, at an offset it changed the
\* memory before, while the call's context is still there to be recalled.
C13_Witness ==
    /\ hs.rt.st = "recalled" /\ Len(hs.rt.p) = 2 /\ hs.rt.p \in ArgMsgs
    /\ view = hs.rt.p
    /\ cx.swap_memory.len = 0 /\ cx.ctx_bytes.len > 0
    /\ cc.pc = "guest" /\ cc.sym = "_wasm_handle_0"

\* C14 (restore replaces swap_memory): after restore(offset, size) the logical
\* content of swap_memory is exactly the size bytes of guest memory from
\* offset, whatever it held before; it is empty for size 0; ctx_bytes and the
\* guest memory are unchanged.
C14_RestoreReplaces ==
    [][\A offset \in Offsets : \A size \in 0..ViewLen :
          vm_restore(offset, size) =>
             /\ cx'.swap_memory.len = size
             /\ Content(cx'.swap_memory) = SubSeq(view, offset + 1, offset + size)
             /\ cx'.ctx_bytes = cx.ctx_bytes
             /\ view' = view /\ cc' = cc /\ ci' = ci]_vars

\* A restore of one guest byte replaced a longer payload: the buffer still
\* physically holds a byte of it beyond the logical length.
C14_Witness ==
    /\ cc.pc = "guest" /\ cc.sym = "_wasm_handle_0"
    /\ hs.produced = <<1>> /\ hs.last = <<1>>
    /\ Content(cx.swap_memory) = <<1>>
    /\ Capacity(cx.swap_memory) >= 2 /\ cx.swap_memory.buf[2] \in Bytes

\* C15 (invoke result hand-off): invoke(offset, size) reads the size bytes of
\* guest memory from offset into swap_memory and the host-side dispatcher gets
\* exactly those bytes; when the host method returns, swap_memory holds exactly
\* its encoded result and the import returns that length (0 for an empty
\* result); ctx_bytes is untouched; a recall(is_context = false, offset) that
\* follows copies exactly the result to the guest memory at offset.
C15_InvokeHandOff ==
    [][/\ \A offset \in Offsets : \A size \in 0..ViewLen :
             vm_invoke(offset, size) =>
                /\ hs'.inv.st = "called"
                /\ hs'.inv.arg = SubSeq(view, offset + 1, offset + size)
                /\ Content(cx'.swap_memory) = SubSeq(view, offset + 1, offset + size)
                /\ cx'.ctx_bytes = cx.ctx_bytes /\ view' = view
       /\ \A result \in HostResults :
             vm_invoke_ret(result) =>
                /\ hs'.inv.st = "returned"
                /\ Content(cx'.swap_memory) = result
                /\ hs'.inv.ret = Len(result) /\ hs'.inv.ret = cx'.swap_memory.len
                /\ cx'.ctx_bytes = cx.ctx_bytes /\ view' = view
       /\ \A offset \in Offsets :
             hs.inv.st = "returned" /\ vm_recall(FALSE, offset) =>
                /\ SubSeq(view', offset + 1, offset + hs.inv.ret) = hs.inv.res
                /\ cx'.swap_memory.len = 0]_vars

\* The host method returned a one-byte result to an invoke made from
\* _wasm_handle_0, into a buffer that physically holds two bytes from before;
\* the guest has not recalled it yet.
C15_Witness ==
    /\ hs.inv.st = "returned" /\ hs.inv.res = Msg(1, 2) /\ hs.inv.ret = 1
    /\ Capacity(cx.swap_memory) >= 2 /\ cx.swap_memory.buf[2] # Uninit
    /\ cc.pc = "guest" /\ cc.sym = "_wasm_handle_0" /\ hs.steps < MaxGuestSteps

\* C16, as claimed: every Instance in the registry has completed its
\* initialisation (loaded = true).
C16_NoPartialInstance ==
    \A k \in Keys : INSTANCES[k] # 0 => heap[INSTANCES[k]].loaded

\* C17, as claimed: every attempt invoke_instance makes for a call_wasm_handler
\* call, the first and each retry, starts with the same two lengths and with
\* the ByteChannel holding the call's encoded arguments and context:
\* swap_memory as long as argumentsByteLength, ctx_bytes as long as
\* contextByteLength.
C17_RetrySameCall ==
    [][(/\ cc'.pc = "guest" /\ cc'.sym # onload_symbol
        /\ \/ cc.pc = "idle"
           \/ cc.pc = "guest" /\ cc'.calls = cc.calls + 1)
       => /\ cc.pc = "guest" =>
                cc'.args_size = cc.args_size /\ cc'.ctx_size = cc.ctx_size
          /\ cx'.swap_memory.len = cc'.args_size
          /\ cx'.ctx_bytes.len = cc'.ctx_size]_vars

\* A frame of a with() that is inside Instance::call_wasm_handler, between
\* set_args and out_rets.
InCall(f) == f.op = "with" /\ f.pc \in LoopPcs /\ f.sym # onload_symbol

\* C18 (Per-instance mutual exclusion): no two call_wasm_handler calls are
\* between set_args and out_rets on the same Instance at the same time,
\* whether they come from nested with() calls of one thread (a registry hit
\* or the with() that built the Instance) or from different threads.
C18_MutualExclusion ==
    /\ \A t \in Threads : \A n \in 1..Len(stack[t]) : \A m \in 1..Len(stack[t]) :
          n # m /\ InCall(stack[t][n]) /\ InCall(stack[t][m]) =>
             stack[t][n].ins # stack[t][m].ins
    /\ \A t1 \in Threads : \A t2 \in Threads \ {t1} :
          \A f1 \in Frames(t1) : \A f2 \in Frames(t2) :
             InCall(f1) /\ InCall(f2) => f1.ins # f2.ins

\* The with() that built an Instance is inside a call on it, in a host method
\* reached through _vm_invoke; that method's own with() hit the registry, took
\* the Instance's lock and is in its callback on the same Instance.
C18_Witness ==
    \E t \in Threads :
        /\ Len(stack[t]) = 2
        /\ ~stack[t][1].hit /\ InCall(stack[t][1]) /\ stack[t][1].pc = "host"
        /\ stack[t][2].hit /\ stack[t][2].ins = stack[t][1].ins
        /\ stack[t][2].pc = "callback" /\ heap[stack[t][2].ins].loaded

\* The top frame of t is building an Instance: from_module up to the end of
\* Instance::init, the two map mutations excluded.
Constructing(t) ==
    /\ ~dead[t] /\ Depth(t) > 0
    /\ \/ Top(t).pc \in {"instantiate", "init_done"}
       \/ Top(t).pc \in {"call_export", "guest"} /\ Top(t).sym = onload_symbol

C20_DeadlockFreedom ==
    \A t \in Threads :
        ~dead[t] /\ Depth(t) > 0 =>
            /\ ~(Top(t).pc = "lock" /\ mutex[Top(t).ins] = t)
            /\ ~(Top(t).pc \in {"init_instance", "remove"} /\ writer # t
                 /\ readers[t] > 0)

====
